---- MODULE Spec2Model ----
(***************************************************************************)
(* Model of Bodayngo/log-tools: epoch_to_utc.py (fixed-fraction variant)   *)
(* and epoch_to_utc_test.py (delimiter-bounded variant).                   *)
(*                                                                         *)
(* Text is a sequence of one-character strings.  The undecodable byte of   *)
(* an input file is the character BadByte.                                 *)
(***************************************************************************)
EXTENDS Integers, Sequences, FiniteSets, TLC

\* ------------------------------------------------------------------ bounds
MaxPieces == 3      \* pieces per input file when convert_epoch is called directly
MaxFilePieces == 1  \* pieces per input file when main is run
MaxRuns == 3        \* runs of main on the same input path

\* ------------------------------------------------------------ characters
DigitChar == <<"0", "1", "2", "3", "4", "5", "6", "7", "8", "9">>

IsDigit(c) == \E n \in 1..10 : DigitChar[n] = c

DigitVal(c) == (CHOOSE n \in 1..10 : DigitChar[n] = c) - 1

BadByte == "\\xff"

NL == "\n"

\* s[i..i+n-1] lies inside s and consists of digits (regex \d{n} at i)
AllDigits(s, i, n) ==
    /\ i >= 1
    /\ i + n - 1 <= Len(s)
    /\ \A j \in i..(i + n - 1) : IsDigit(s[j])

\* literal text d occurs in s at position i
StartsWith(s, i, d) ==
    /\ i >= 1
    /\ i + Len(d) - 1 <= Len(s)
    /\ SubSeq(s, i, i + Len(d) - 1) = d

MaxOf(S) == CHOOSE x \in S : \A y \in S : y <= x

\* ------------------------------------------------- regular expressions
\* the alternation written (\d{3}|\d{6}): three digits are tried first
MatchFixedAt_ThreeFirst(line, i) ==
    IF AllDigits(line, i, 10) /\ StartsWith(line, i + 10, <<".">>)
    THEN IF AllDigits(line, i + 11, 3) THEN 14
         ELSE IF AllDigits(line, i + 11, 6) THEN 17
         ELSE 0
    ELSE 0

\* epoch_to_utc.py: r"(\d{10}\.(\d{6}|\d{3}))" tried at position i;
\* the length of the match, 0 when there is none.  The alternation tries
\* six fractional digits before three.
MatchFixedAt(line, i) ==
    IF AllDigits(line, i, 10) /\ StartsWith(line, i + 10, <<".">>)
    THEN IF AllDigits(line, i + 11, 6) THEN 17
         ELSE IF AllDigits(line, i + 11, 3) THEN 14
         ELSE 0
    ELSE 0

\* epoch_to_utc_test.py: the optional group (?:\.(\d{1,6}))? at position
\* i+10, followed by the escaped delimiter; the number of fractional digits
\* the greedy quantifier settles on after backtracking, 0 when the group
\* does not take part in the match.
FracLenAt(line, i, delim) ==
    LET ks == {k \in 1..6 : /\ AllDigits(line, i + 11, k)
                            /\ StartsWith(line, i + 11 + k, delim)}
    IN  IF StartsWith(line, i + 10, <<".">>) /\ ks # {} THEN MaxOf(ks) ELSE 0

\* r"((\d{10})(?:\.(\d{1,6}))?" + delimiter_escaped + ")" tried at i;
\* the length of the match (delimiter included), 0 when there is none.
MatchDelimAt(line, i, delim) ==
    IF ~AllDigits(line, i, 10) THEN 0
    ELSE LET k == FracLenAt(line, i, delim)
         IN  IF k > 0 THEN 10 + 1 + k + Len(delim)
             ELSE IF StartsWith(line, i + 10, delim) THEN 10 + Len(delim)
             ELSE 0

\* timestamp_pattern.findall(line), fixed-fraction variant: the tuples
\* (group 1, group 2) of the non-overlapping matches, left to right.
RECURSIVE FindAllFixed(_, _)
FindAllFixed(line, i) ==
    IF i > Len(line) THEN <<>>
    ELSE LET n == MatchFixedAt(line, i)
         IN  IF n = 0 THEN FindAllFixed(line, i + 1)
             ELSE << <<SubSeq(line, i, i + n - 1),
                       SubSeq(line, i + 11, i + n - 1)>> >>
                  \o FindAllFixed(line, i + n)

\* timestamp_pattern.findall(line), delimiter variant: the tuples
\* (group 1, group 2, group 3); an unmatched group 3 is the empty string.
RECURSIVE FindAllDelim(_, _, _)
FindAllDelim(line, i, delim) ==
    IF i > Len(line) THEN <<>>
    ELSE LET n == MatchDelimAt(line, i, delim)
             k == FracLenAt(line, i, delim)
         IN  IF n = 0 THEN FindAllDelim(line, i + 1, delim)
             ELSE << <<SubSeq(line, i, i + n - 1),
                       SubSeq(line, i, i + 9),
                       IF k > 0 THEN SubSeq(line, i + 11, i + 10 + k) ELSE <<>> >> >>
                  \o FindAllDelim(line, i + n, delim)

\* str.replace(old, new): every non-overlapping occurrence of old in s,
\* scanning from position i, becomes new.
RECURSIVE StrReplaceFrom(_, _, _, _)
StrReplaceFrom(s, old, new, i) ==
    IF i > Len(s) THEN <<>>
    ELSE IF StartsWith(s, i, old)
         THEN new \o StrReplaceFrom(s, old, new, i + Len(old))
         ELSE <<s[i]>> \o StrReplaceFrom(s, old, new, i + 1)

StrReplace(s, old, new) == StrReplaceFrom(s, old, new, 1)

\* ------------------------------------------------------------ conversion
\* int(digits) split as divmod(int(digits), 86400), digit by digit so that
\* no intermediate value leaves the 32-bit range: <<days, seconds of day>>
RECURSIVE EpochDivMod(_, _, _)
EpochDivMod(ds, q, r) ==
    IF ds = <<>> THEN <<q, r>>
    ELSE LET v == r * 10 + DigitVal(Head(ds))
         IN  EpochDivMod(Tail(ds), q * 10 + (v \div 86400), v % 86400)

\* int(digits) for a short digit string
RECURSIVE ToInt(_, _)
ToInt(ds, acc) ==
    IF ds = <<>> THEN acc ELSE ToInt(Tail(ds), acc * 10 + DigitVal(Head(ds)))

\* n as w decimal digits, zero padded (%02d, %04d, %06d)
RECURSIVE ZeroPad(_, _)
ZeroPad(n, w) ==
    IF w = 0 THEN <<>> ELSE ZeroPad(n \div 10, w - 1) \o <<DigitChar[(n % 10) + 1]>>

\* proleptic Gregorian date of day number `days` since 1970-01-01
CivilFromDays(days) ==
    LET z   == days + 719468
        era == z \div 146097
        doe == z - era * 146097
        yoe == (doe - (doe \div 1460) + (doe \div 36524) - (doe \div 146096)) \div 365
        doy == doe - (365 * yoe + (yoe \div 4) - (yoe \div 100))
        mp  == (5 * doy + 2) \div 153
        d   == doy - ((153 * mp + 2) \div 5) + 1
        m   == IF mp < 10 THEN mp + 3 ELSE mp - 9
        y   == yoe + era * 400 + (IF m <= 2 THEN 1 ELSE 0)
    IN  [year |-> y, month |-> m, day |-> d]

\* datetime.utcfromtimestamp(e).strftime("%Y-%m-%d %H:%M:%S") for the epoch
\* value written as the digit string ds
FormatSeconds(ds) ==
    LET dm  == EpochDivMod(ds, 0, 0)
        ymd == CivilFromDays(dm[1])
        sod == dm[2]
    IN  ZeroPad(ymd.year, 4) \o <<"-">> \o ZeroPad(ymd.month, 2) \o <<"-">>
        \o ZeroPad(ymd.day, 2) \o <<" ">> \o ZeroPad(sod \div 3600, 2) \o <<":">>
        \o ZeroPad((sod % 3600) \div 60, 2) \o <<":">> \o ZeroPad(sod % 60, 2)

\* whole + num/den rounded to the nearest integer, ties to even
RoundHalfEven(whole, num, den) ==
    LET q == whole + (num \div den)
        r == num % den
    IN  IF 2 * r < den THEN q
        ELSE IF 2 * r > den THEN q + 1
        ELSE IF q % 2 = 0 THEN q ELSE q + 1

\* The microsecond field of utcfromtimestamp(float(text)) for a value of
\* `us` millionths past the second.  Below 2^33 seconds a double is within
\* half a microsecond of the decimal text and the digits come back; from
\* 2^33 on doubles are 2^-19 apart: the value is rounded to a multiple of
\* 2^-19 (float) and that back to microseconds (utcfromtimestamp).
FloatMicros(dm, us) ==
    IF dm[1] < 99420 \/ (dm[1] = 99420 /\ dm[2] < 46592) THEN us
    ELSE LET f == RoundHalfEven(8192 * (us \div 15625), (us % 15625) * 8192, 15625)
         IN  RoundHalfEven(15625 * (f \div 8192), (f % 8192) * 15625, 8192)

\* datetime.utcfromtimestamp(float(text)).strftime("%Y-%m-%d %H:%M:%S.%f")
\* for text = ten digits, a point, and three or six digits
FormatMicros(text) ==
    LET ds   == SubSeq(text, 1, 10)
        frac == SubSeq(text, 12, Len(text))
        us   == IF Len(frac) = 3 THEN ToInt(frac, 0) * 1000 ELSE ToInt(frac, 0)
    IN  FormatSeconds(ds) \o <<".">> \o ZeroPad(FloatMicros(EpochDivMod(ds, 0, 0), us), 6)

\* -------------------------------------------------- per-line substitution
\* epoch_to_utc.py, the loop over matches: every match's text is
\* replaced in the line accumulated so far by its rendering
RECURSIVE ReplaceMatchesFixed(_, _)
ReplaceMatchesFixed(line, matches) ==
    IF matches = <<>> THEN line
    ELSE LET match         == Head(matches)
             utc_timestamp == FormatMicros(match[1])
         IN  ReplaceMatchesFixed(StrReplace(line, match[1], utc_timestamp),
                                 Tail(matches))

\* epoch_to_utc_test.py, the loop over matches: group 2 (the ten digits)
\* is replaced in the line accumulated so far by its rendering
RECURSIVE ReplaceMatchesDelim(_, _)
ReplaceMatchesDelim(line, matches) ==
    IF matches = <<>> THEN line
    ELSE LET match         == Head(matches)
             utc_timestamp == FormatSeconds(match[2])
         IN  ReplaceMatchesDelim(StrReplace(line, match[2], utc_timestamp),
                                 Tail(matches))

\* the line stripped of its terminator before it is converted
ConvertLine_Stripped(v, delim, line) ==
    LET b == IF line # <<>> /\ line[Len(line)] = NL
             THEN SubSeq(line, 1, Len(line) - 1) ELSE line
    IN  IF v = "fixed"
        THEN ReplaceMatchesFixed(b, FindAllFixed(b, 1))
        ELSE ReplaceMatchesDelim(b, FindAllDelim(b, 1, delim))

\* the body of `for line in input_file` up to modified_lines.append(line)
ConvertLine(v, delim, line) ==
    IF v = "fixed"
    THEN ReplaceMatchesFixed(line, FindAllFixed(line, 1))
    ELSE ReplaceMatchesDelim(line, FindAllDelim(line, 1, delim))

\* the end of the line that starts after offset p of text s: the position
\* of the next line terminator, or the end of the text
RECURSIVE LineEnd(_, _)
LineEnd(s, p) ==
    IF p >= Len(s) THEN Len(s)
    ELSE IF s[p + 1] = NL THEN p + 1 ELSE LineEnd(s, p + 1)

\* the lines written one per line, a terminator added to each
RECURSIVE WriteLinesText_Joined(_)
WriteLinesText_Joined(lines) ==
    IF lines = <<>> THEN <<>>
    ELSE Head(lines) \o <<NL>> \o WriteLinesText_Joined(Tail(lines))

\* output_file.writelines(lines): the lines one after the other
RECURSIVE WriteLinesText(_)
WriteLinesText(lines) ==
    IF lines = <<>> THEN <<>> ELSE Head(lines) \o WriteLinesText(Tail(lines))

\* ------------------------------------------------------------------ inputs
EpochA == <<"1", "6", "8", "5", "2", "9", "7", "7", "2", "9">>

\* the pieces input files are assembled from
Pieces ==
    { EpochA,
      EpochA \o <<".", "1", "2", "3">>,
      EpochA \o <<".", "1", "2", "3", "4", "5", "6">>,
      <<".", "1">>,
      <<"1">>,
      <<":", " ">>,
      <<NL>>,
      <<BadByte>> }

\* the texts of at most n pieces
RECURSIVE Texts(_)
Texts(n) ==
    IF n = 0 THEN {<<>>}
    ELSE LET S == Texts(n - 1) IN S \cup {t \o p : t \in S, p \in Pieces}

NoFile == [exists |-> FALSE, readable |-> FALSE, content |-> <<>>]

\* the input files of at most n pieces: readable ones, one that may not be
\* read, and the missing file
InFiles(n) ==
    [exists : {TRUE}, readable : {TRUE}, content : Texts(n)]
    \cup {[exists |-> TRUE, readable |-> FALSE, content |-> EpochA], NoFile}

OldOutput == [exists |-> TRUE, readable |-> TRUE, content |-> <<"o", "l", "d", NL>>]

\* ------------------------------------------------------------------- state
VARIABLES
    variant,          \* "fixed": epoch_to_utc.py, "delim": epoch_to_utc_test.py
    caller,           \* "main", or "direct" for a call of convert_epoch itself
    in_file,          \* the file at input_filepath
    out_file,         \* the file at output_filepath
    out_writable,     \* whether output_filepath may be opened for writing
    out_at_start,     \* the file at output_filepath when the run started
    argv,             \* the command line of the run
    pc,               \* position of the run
    epoch_delimiter,  \* convert_epoch's epoch_delimiter
    existed,          \* result of file_exists(output_filepath)
    open_files,       \* handles held by the with statement
    pos,              \* how far input_file has been iterated
    modified_lines,   \* convert_epoch's modified_lines
    exc,              \* the exception in flight
    log,              \* what the run has printed, in order
    exit_status,      \* exit status of the finished run
    runs              \* runs of main started so far

vars == <<variant, caller, in_file, out_file, out_writable, out_at_start, argv, pc,
          epoch_delimiter, existed, open_files, pos, modified_lines, exc, log,
          exit_status, runs>>

config == <<variant, caller, in_file, out_writable, out_at_start>>

NoExc == [type |-> "none", code |-> 0]
NoStatus == 0 - 1

\* the last clause written `except OSError`
ExceptionClasses_OSError == {"FileNotFoundError", "PermissionError"}

\* the classes caught by `except Exception`
ExceptionClasses == {"FileNotFoundError", "PermissionError", "UnicodeDecodeError"}

Raised(type) == [type |-> type, code |-> 1]
SystemExit(code) == [type |-> "SystemExit", code |-> code]

ArgvKinds == {"file", "usage", "help"}

Out(text) == [stream |-> "stdout", text |-> text]
Err(text) == [stream |-> "stderr", text |-> text]

MsgUsage == Err("usage: error")
MsgHelp == Out("usage: help")
MsgExists == Out("Output filename already exists")
MsgSkipping == Out("Skipping timestamp conversion...")
MsgConverted == Out("Converted file outputed at")
MsgNotFound == Err("Input file not found")
MsgPermission == Err("Permission denied. Unable to read or write files.")
MsgScriptError == Err("Script error has occurred")
MsgCompleted == Out("Script has completed.")

MainDelimiter == <<":", " ">>

InitCommon ==
    /\ variant \in {"fixed", "delim"}
    /\ out_writable \in BOOLEAN
    /\ argv = "file"
    /\ existed = FALSE
    /\ open_files = {}
    /\ pos = 0
    /\ modified_lines = <<>>
    /\ exc = NoExc
    /\ log = <<>>
    /\ exit_status = NoStatus
    /\ runs = 0

\* the script is about to be run
Init ==
    /\ InitCommon
    /\ caller = "main"
    /\ pc = "idle"
    /\ in_file \in InFiles(MaxFilePieces)
    /\ out_file \in {NoFile, OldOutput}
    /\ out_at_start = out_file
    /\ epoch_delimiter = <<>>

\* convert_epoch is about to be called with two paths (and a delimiter)
InitConvert ==
    /\ InitCommon
    /\ caller = "direct"
    /\ pc = "open_in"
    /\ in_file \in InFiles(MaxPieces)
    /\ out_file \in {NoFile, OldOutput}
    /\ out_at_start = out_file
    /\ epoch_delimiter \in (IF variant = "fixed" THEN {<<>>} ELSE {<<>>, MainDelimiter})

\* ------------------------------------------------------------ convert_epoch
\* an exception leaves convert_epoch; the with statement closes the files
Raise(type) ==
    /\ exc' = Raised(type)
    /\ open_files' = {}
    /\ pc' = IF caller = "main" THEN "except" ELSE "raised"

\* open(input_filepath, "r")
OpenInput ==
    /\ pc = "open_in"
    /\ IF ~in_file.exists THEN Raise("FileNotFoundError")
       ELSE IF ~in_file.readable THEN Raise("PermissionError")
       ELSE /\ open_files' = {"input_file"}
            /\ pc' = "open_out"
            /\ exc' = exc
    /\ UNCHANGED <<config, out_file, argv, epoch_delimiter, existed, pos,
                   modified_lines, log, exit_status, runs>>

\* open(output_filepath, "w") creates or truncates the file;
\* modified_lines = []
OpenOutput ==
    /\ pc = "open_out"
    /\ IF ~out_writable
       THEN /\ Raise("PermissionError")
            /\ UNCHANGED <<out_file, pos, modified_lines>>
       ELSE /\ out_file' = [exists |-> TRUE, readable |-> TRUE, content |-> <<>>]
            /\ open_files' = open_files \cup {"output_file"}
            /\ pos' = 0
            /\ modified_lines' = <<>>
            /\ pc' = "loop"
            /\ exc' = exc
    /\ UNCHANGED <<config, argv, epoch_delimiter, existed, log, exit_status, runs>>

\* the text layer decodes what it has read of the file before it hands out
\* a line: a byte that does not decode raises at the first read
Undecodable(text) == \E i \in 1..Len(text) : text[i] = BadByte

\* each converted line written to the output as soon as it is converted
ReadLine_WritesThrough ==
    /\ pc = "loop"
    /\ pos < Len(in_file.content)
    /\ IF Undecodable(in_file.content)
       THEN /\ Raise("UnicodeDecodeError")
            /\ UNCHANGED <<pos, modified_lines, out_file>>
       ELSE LET end  == LineEnd(in_file.content, pos)
                line == SubSeq(in_file.content, pos + 1, end)
                new  == ConvertLine(variant, epoch_delimiter, line)
            IN  /\ modified_lines' = Append(modified_lines, new)
                /\ out_file' = [out_file EXCEPT !.content = @ \o new]
                /\ pos' = end
                /\ UNCHANGED <<pc, exc, open_files>>
    /\ UNCHANGED <<config, argv, epoch_delimiter, existed, log, exit_status, runs>>

\* one iteration of `for line in input_file`
ReadLine ==
    /\ pc = "loop"
    /\ pos < Len(in_file.content)
    /\ IF Undecodable(in_file.content)
       THEN /\ Raise("UnicodeDecodeError")
            /\ UNCHANGED <<pos, modified_lines>>
       ELSE LET end  == LineEnd(in_file.content, pos)
                line == SubSeq(in_file.content, pos + 1, end)
            IN  /\ modified_lines' =
                       Append(modified_lines, ConvertLine(variant, epoch_delimiter, line))
                /\ pos' = end
                /\ UNCHANGED <<pc, exc, open_files>>
    /\ UNCHANGED <<config, out_file, argv, epoch_delimiter, existed, log,
                   exit_status, runs>>

\* output_file.writelines(modified_lines), once the input is exhausted
WriteLines ==
    /\ pc = "loop"
    /\ pos = Len(in_file.content)
    /\ out_file' = [out_file EXCEPT !.content = WriteLinesText(modified_lines)]
    /\ pc' = "close"
    /\ UNCHANGED <<config, argv, epoch_delimiter, existed, open_files, pos,
                   modified_lines, exc, log, exit_status, runs>>

\* the with statement ends: both files are closed and convert_epoch returns
Return ==
    /\ pc = "close"
    /\ open_files' = {}
    /\ pc' = IF caller = "main" THEN "converted" ELSE "returned"
    /\ UNCHANGED <<config, out_file, argv, epoch_delimiter, existed, pos,
                   modified_lines, exc, log, exit_status, runs>>

convert_epoch == OpenInput \/ OpenOutput \/ ReadLine \/ WriteLines \/ Return

\* --------------------------------------------------------------------- main
\* the script is started
MainStart ==
    /\ pc \in {"idle", "done"}
    /\ runs < MaxRuns
    /\ runs' = runs + 1
    /\ \E a \in ArgvKinds : argv' = a
    /\ pc' = "parse"
    /\ epoch_delimiter' = <<>>
    /\ existed' = FALSE
    /\ pos' = 0
    /\ modified_lines' = <<>>
    /\ exc' = NoExc
    /\ log' = <<>>
    /\ exit_status' = NoStatus
    /\ out_at_start' = out_file
    /\ UNCHANGED <<variant, caller, in_file, out_writable, out_file, open_files>>

\* args = parse_arguments(): argparse prints and raises SystemExit on a
\* usage error (status 2) and on -h (status 0)
parse_arguments ==
    /\ pc = "parse"
    /\ IF argv = "file"
       THEN /\ pc' = "exists"
            /\ UNCHANGED <<exc, log>>
       ELSE /\ log' = Append(log, IF argv = "usage" THEN MsgUsage ELSE MsgHelp)
            /\ exc' = SystemExit(IF argv = "usage" THEN 2 ELSE 0)
            /\ pc' = "except"
    /\ UNCHANGED <<config, out_file, argv, epoch_delimiter, existed, open_files,
                   pos, modified_lines, exit_status, runs>>

\* the result of the existence check dropped
file_exists_Ignored ==
    /\ pc = "exists"
    /\ existed' = FALSE
    /\ pc' = "branch"
    /\ UNCHANGED <<config, out_file, argv, epoch_delimiter, open_files, pos,
                   modified_lines, exc, log, exit_status, runs>>

\* file_exists(output_filepath)
file_exists ==
    /\ pc = "exists"
    /\ existed' = out_file.exists
    /\ pc' = "branch"
    /\ UNCHANGED <<config, out_file, argv, epoch_delimiter, open_files, pos,
                   modified_lines, exc, log, exit_status, runs>>

\* the output exists: two notices, no conversion
SkipConversion ==
    /\ pc = "branch"
    /\ existed
    /\ log' = log \o <<MsgExists, MsgSkipping>>
    /\ pc' = "finally"
    /\ UNCHANGED <<config, out_file, argv, epoch_delimiter, existed, open_files,
                   pos, modified_lines, exc, exit_status, runs>>

\* else: convert_epoch(input_filepath, output_filepath[, epoch_delimiter=': '])
CallConvertEpoch ==
    /\ pc = "branch"
    /\ ~existed
    /\ epoch_delimiter' = IF variant = "delim" THEN MainDelimiter ELSE <<>>
    /\ pc' = "open_in"
    /\ UNCHANGED <<config, out_file, argv, existed, open_files, pos,
                   modified_lines, exc, log, exit_status, runs>>

\* print(f"Converted file outputed at: ...")
PrintConverted ==
    /\ pc = "converted"
    /\ log' = Append(log, MsgConverted)
    /\ pc' = "finally"
    /\ UNCHANGED <<config, out_file, argv, epoch_delimiter, existed, open_files,
                   pos, modified_lines, exc, exit_status, runs>>

\* an except clause that matches prints its message and ends the exception
Handle(msg) ==
    /\ log' = Append(log, msg)
    /\ exc' = NoExc
    /\ pc' = "finally"
    /\ UNCHANGED <<config, out_file, argv, epoch_delimiter, existed, open_files,
                   pos, modified_lines, exit_status, runs>>

ExceptFileNotFound ==
    /\ pc = "except"
    /\ exc.type = "FileNotFoundError"
    /\ Handle(MsgNotFound)

ExceptPermission ==
    /\ pc = "except"
    /\ exc.type = "PermissionError"
    /\ Handle(MsgPermission)

ExceptException ==
    /\ pc = "except"
    /\ exc.type \in ExceptionClasses \ {"FileNotFoundError", "PermissionError"}
    /\ Handle(MsgScriptError)

\* the completion message printed after the try statement, not in finally
NoHandler_SkipsFinally ==
    /\ pc = "except"
    /\ exc.type \notin ExceptionClasses
    /\ pc' = "exit"
    /\ UNCHANGED <<config, out_file, argv, epoch_delimiter, existed, open_files,
                   pos, modified_lines, exc, log, exit_status, runs>>

\* no except clause matches (SystemExit is not an Exception): the exception
\* stays in flight through the finally clause
NoHandler ==
    /\ pc = "except"
    /\ exc.type \notin ExceptionClasses
    /\ pc' = "finally"
    /\ UNCHANGED <<config, out_file, argv, epoch_delimiter, existed, open_files,
                   pos, modified_lines, exc, log, exit_status, runs>>

\* finally: print("Script has completed.")
Finally ==
    /\ pc = "finally"
    /\ log' = Append(log, MsgCompleted)
    /\ pc' = "exit"
    /\ UNCHANGED <<config, out_file, argv, epoch_delimiter, existed, open_files,
                   pos, modified_lines, exc, exit_status, runs>>

\* main is left: normally (status 0), or by the exception still in flight
Exit ==
    /\ pc = "exit"
    /\ exit_status' = IF exc = NoExc THEN 0 ELSE exc.code
    /\ pc' = "done"
    /\ UNCHANGED <<config, out_file, argv, epoch_delimiter, existed, open_files,
                   pos, modified_lines, exc, log, runs>>

\* between two runs the user deletes the conflicting output file
RemoveOutput ==
    /\ pc = "done"
    /\ out_file.exists
    /\ out_file' = NoFile
    /\ UNCHANGED <<config, argv, pc, epoch_delimiter, existed, open_files, pos,
                   modified_lines, exc, log, exit_status, runs>>

Next ==
    \/ MainStart \/ parse_arguments \/ file_exists \/ SkipConversion
    \/ CallConvertEpoch \/ OpenInput \/ OpenOutput \/ ReadLine \/ WriteLines
    \/ Return \/ PrintConverted \/ ExceptFileNotFound \/ ExceptPermission
    \/ ExceptException \/ NoHandler \/ Finally \/ Exit \/ RemoveOutput

Spec == Init /\ [][Next]_vars

SpecConvert == InitConvert /\ [][convert_epoch]_vars

\* --------------------------------------------------------------- properties
\* the lines of a text, each with its terminator, read character by character
RECURSIVE SplitAt(_, _, _)
SplitAt(text, i, cur) ==
    IF i > Len(text) THEN (IF cur = <<>> THEN <<>> ELSE <<cur>>)
    ELSE IF text[i] = NL THEN <<Append(cur, NL)>> \o SplitAt(text, i + 1, <<>>)
    ELSE SplitAt(text, i + 1, Append(cur, text[i]))

InputLines == SplitAt(in_file.content, 1, <<>>)

OutputLines == SplitAt(out_file.content, 1, <<>>)

\* the lines convert_epoch has dealt with so far
Processed == 1..(IF Len(modified_lines) <= Len(InputLines)
                 THEN Len(modified_lines) ELSE Len(InputLines))

Matches(line) ==
    IF variant = "fixed" THEN FindAllFixed(line, 1)
    ELSE FindAllDelim(line, 1, epoch_delimiter)

MatchAt(line, i) ==
    IF variant = "fixed" THEN MatchFixedAt(line, i)
    ELSE MatchDelimAt(line, i, epoch_delimiter)

\* the line with the numeric span of each match, found left to right without
\* overlap, replaced where it stands by its rendering
RECURSIVE SubstituteByPosition(_, _)
SubstituteByPosition(line, i) ==
    IF i > Len(line) THEN <<>>
    ELSE LET n == MatchAt(line, i)
         IN  IF n = 0 THEN <<line[i]>> \o SubstituteByPosition(line, i + 1)
             ELSE IF variant = "fixed"
                  THEN FormatMicros(SubSeq(line, i, i + n - 1))
                       \o SubstituteByPosition(line, i + n)
                  ELSE FormatSeconds(SubSeq(line, i, i + 9))
                       \o SubSeq(line, i + 10, i + n - 1)
                       \o SubstituteByPosition(line, i + n)

\* the positions at which the matches of a line start
RECURSIVE MatchStarts(_, _)
MatchStarts(line, i) ==
    IF i > Len(line) THEN {}
    ELSE LET n == MatchAt(line, i)
         IN  IF n = 0 THEN MatchStarts(line, i + 1)
             ELSE {i} \cup MatchStarts(line, i + n)

Finished == pc \in {"close", "returned"}

\* C1: every output line is the input line with the numeric span of each
\* match replaced at the match's position by its rendering, every other
\* character unchanged (both variants).
C1_SubstitutionByPosition ==
    \A i \in Processed :
        modified_lines[i] = SubstituteByPosition(InputLines[i], 1)

\* C2: a line with two matched tokens whose texts are not identical has both
\* replaced by their own renderings, left to right, the rest unchanged.
C2_TwoDistinctTokens ==
    \A i \in Processed :
        LET m == Matches(InputLines[i])
        IN  (Len(m) = 2 /\ m[1][1] # m[2][1])
                => modified_lines[i] = SubstituteByPosition(InputLines[i], 1)

\* ten digits at p, no digit before or after, that the delimiter pattern
\* does not match and that no token overlaps
UnrecognizedRuns(line) ==
    {p \in 1..Len(line) :
        /\ AllDigits(line, p, 10)
        /\ ~AllDigits(line, p - 1, 1)
        /\ ~AllDigits(line, p + 10, 1)
        /\ MatchDelimAt(line, p, epoch_delimiter) = 0
        /\ \A s \in MatchStarts(line, 1) : p + 10 <= s \/ s + 10 <= p}

\* where position p of the input line lands in the output line: every token
\* before it grows from 10 to 19 characters
OutPos(line, p) == p + 9 * Cardinality({s \in MatchStarts(line, 1) : s < p})

\* C3: with a non-empty delimiter, a 10-digit run the delimiter does not
\* follow is no token and stands unchanged in the output line, whatever
\* tokens the line contains.
C3_UnrecognizedRunUnchanged ==
    (variant = "delim" /\ epoch_delimiter # <<>>) =>
        \A i \in Processed :
            \A p \in UnrecognizedRuns(InputLines[i]) :
                LET q == OutPos(InputLines[i], p)
                IN  /\ q + 9 <= Len(modified_lines[i])
                    /\ SubSeq(modified_lines[i], q, q + 9)
                           = SubSeq(InputLines[i], p, p + 9)

\* the line without its terminator
Body(line) ==
    IF line # <<>> /\ line[Len(line)] = NL THEN SubSeq(line, 1, Len(line) - 1)
    ELSE line

\* the line is ten digits, alone or followed by a point and digits only
BareStamp(line) ==
    LET b == Body(line)
    IN  /\ AllDigits(b, 1, 10)
        /\ \/ Len(b) = 10
           \/ /\ b[11] = "."
              /\ AllDigits(b, 12, Len(b) - 11)

\* the number k of fractional digits of a bare stamp
FracDigits(line) == IF Len(Body(line)) = 10 THEN 0 ELSE Len(Body(line)) - 11

\* C4 as stated: in the fixed-fraction variant a stamp with k fractional
\* digits is converted only when k is 3 or 6; for any other k the output
\* line equals the input line.
C4_Original ==
    variant = "fixed" =>
        \A i \in Processed :
            (BareStamp(InputLines[i]) /\ FracDigits(InputLines[i]) \notin {3, 6})
                => modified_lines[i] = InputLines[i]

\* C4 amended: in the fixed-fraction variant a stamp with k fractional
\* digits is left alone only for k < 3; for k in 3..5 the number and its
\* first 3 fractional digits are converted, for k >= 6 the number and its
\* first 6, and the remaining digits stay behind the rendering.
C4_Amended ==
    variant = "fixed" =>
        \A i \in Processed :
            LET line == InputLines[i]
                k    == FracDigits(line)
                n    == IF k >= 6 THEN 17 ELSE 14
            IN  BareStamp(line) =>
                    modified_lines[i] =
                        IF k < 3 THEN line
                        ELSE FormatMicros(SubSeq(line, 1, n))
                             \o SubSeq(line, n + 1, Len(line))

C4_Witness ==
    /\ variant = "fixed"
    /\ \E i \in Processed :
           /\ BareStamp(InputLines[i])
           /\ FracDigits(InputLines[i]) = 4
           /\ modified_lines[i] # InputLines[i]

\* ------------------------------------------------- properties of main
ConvertPcs == {"open_in", "open_out", "loop", "close", "converted"}

Running == pc \notin {"idle", "done"}

SkipLog == <<MsgExists, MsgSkipping, MsgCompleted>>

C5_Inv ==
    (Running /\ out_at_start.exists) =>
        /\ out_file = out_at_start
        /\ pc \notin ConvertPcs
        /\ open_files = {}
        /\ modified_lines = <<>>

\* C5: when main runs while a file exists at <input>.utc, convert_epoch is
\* not called, nothing is written to that path, and the input file and the
\* existing output file are the same after the run as before, run after run.
C5_ExistingOutputUntouched == []C5_Inv /\ [][in_file' = in_file]_vars

C5_Witness ==
    /\ pc = "exit"
    /\ runs >= 2
    /\ existed
    /\ out_at_start.exists
    /\ out_file = out_at_start
    /\ log = SkipLog

\* C6: on every execution of main the completion message is printed, once,
\* and after every other message of the run.
C6_CompletionLast ==
    pc \in {"exit", "done"} =>
        /\ log # <<>>
        /\ log[Len(log)] = MsgCompleted
        /\ \A i \in 1..(Len(log) - 1) : log[i] # MsgCompleted

C6_Witness ==
    /\ pc = "done"
    /\ exc.type = "SystemExit"
    /\ log = <<MsgUsage, MsgCompleted>>

\* C7 as stated: every failure of a run, argument parsing included, is
\* caught inside main, nothing propagates and the exit status is 0.
C7_Original ==
    pc = "done" => (exit_status = 0 /\ exc = NoExc)

\* what a run given a file path prints, from the files it finds
ExpectedLog ==
    IF out_at_start.exists THEN SkipLog
    ELSE IF ~in_file.exists THEN <<MsgNotFound, MsgCompleted>>
    ELSE IF ~in_file.readable \/ ~out_writable THEN <<MsgPermission, MsgCompleted>>
    ELSE IF Undecodable(in_file.content) THEN <<MsgScriptError, MsgCompleted>>
    ELSE <<MsgConverted, MsgCompleted>>

\* C7 amended: every failure raised as an Exception (opening, reading,
\* converting or writing inside convert_epoch) is caught inside main and
\* printed as a diagnostic, and the run ends with status 0; the exit raised
\* by argument parsing is not caught: it leaves main after the completion
\* message with argparse's status, 2 for a usage error and 0 for -h.
C7_Amended ==
    pc = "done" =>
        IF argv = "file"
        THEN /\ exit_status = 0
             /\ exc = NoExc
             /\ log = ExpectedLog
        ELSE /\ exc = SystemExit(IF argv = "usage" THEN 2 ELSE 0)
             /\ exit_status = exc.code
             /\ log = <<IF argv = "usage" THEN MsgUsage ELSE MsgHelp, MsgCompleted>>

C7_Witness ==
    /\ pc = "done"
    /\ argv = "file"
    /\ exit_status = 0
    /\ log = <<MsgScriptError, MsgCompleted>>

\* ---------------------------------------- properties of convert_epoch, II
NoMatchAnywhere == \A i \in 1..Len(InputLines) : Matches(InputLines[i]) = <<>>

EndsLine(line) == line # <<>> /\ line[Len(line)] = NL

EmptyOutput == [exists |-> TRUE, readable |-> TRUE, content |-> <<>>]

C10_Inv ==
    \* an input that cannot be opened: no file is created
    /\ (runs >= 1 /\ ~out_at_start.exists /\ (~in_file.exists \/ ~in_file.readable))
           => ~out_file.exists
    \* a failure after both files are opened: an empty file is left
    /\ (pc = "except" /\ exc.type = "UnicodeDecodeError") => out_file = EmptyOutput
    /\ (Running /\ MsgScriptError \in {log[i] : i \in 1..Len(log)})
           => out_file = EmptyOutput
    \* a run that finds the file takes the skip path
    /\ (pc = "exit" /\ argv = "file" /\ out_at_start.exists)
           => (log = SkipLog /\ out_file = out_at_start)

C10_Step ==
    out_file' # out_file =>
        \* created, empty, once the input is open
        \/ /\ pc = "open_out"
           /\ "input_file" \in open_files
           /\ ~out_file.exists
           /\ out_file' = EmptyOutput
        \* written once every input line has been processed
        \/ /\ pc = "loop"
           /\ pos = Len(in_file.content)
           /\ Len(modified_lines) = Len(InputLines)
           /\ out_file.content = <<>>
        \* removed by the user between runs
        \/ /\ pc = "done"
           /\ out_file' = NoFile

====
